---- MODULE Spec2Model ----
(***************************************************************************)
(* Verification model of the script-mining and attribute-resolution core   *)
(* of src/proc.py: parse_gml (the tokenizer), resolve_num / resolve_bool / *)
(* resolve_str / resolve_raw (the resolvers), args_for_calls (the call     *)
(* query), hierarchy_for_object, and the run phases parse_object_code ->   *)
(* patch_object_code -> per-object processing.                             *)
(*                                                                         *)
(* Texts are TLA+ strings; a character is a string of length 1.  The       *)
(* character classes are ASCII: \w is [A-Za-z0-9_], \d is [0-9], white     *)
(* space is space, tab, CR and LF.  Line breaks in script text are LF.     *)
(***************************************************************************)
EXTENDS Integers, Sequences, FiniteSets, TLC

VARIABLES
    objParentMap,   \* exp_data["objParentMap"]: object id -> parent id
    gml,            \* the exported script files: object id -> [exists, text]
    parsed_code,    \* parsed_code: object id -> dict (keys -> raw text, "__calls" -> calls)
    pc,             \* position of run(): "loaded", "parsed", "proc", "returned", "crashed"
    ret             \* the last call made by the processing layer and what it gave

vars == <<objParentMap, gml, parsed_code, pc, ret>>

----------------------------------------------------------------------------
(* Python str primitives *)

Ch(s, i) == SubSeq(s, i, i)

Slice(s, i, j) == IF i > j \/ i > Len(s) THEN "" ELSE SubSeq(s, i, IF j > Len(s) THEN Len(s) ELSE j)

From(s, i) == Slice(s, i, Len(s))

StartsWith(s, p) == Len(p) <= Len(s) /\ Slice(s, 1, Len(p)) = p

EndsWith(s, p) == Len(p) <= Len(s) /\ Slice(s, Len(s) - Len(p) + 1, Len(s)) = p

RemovePrefix(s, p) == IF StartsWith(s, p) THEN From(s, Len(p) + 1) ELSE s

RemoveSuffix(s, p) == IF p # "" /\ EndsWith(s, p) THEN Slice(s, 1, Len(s) - Len(p)) ELSE s

\* index of the first occurrence of sub in s, 0 when there is none (str.find, 1-based)
Find(s, sub) ==
    LET at == {j \in 1..(Len(s) - Len(sub) + 1) : SubSeq(s, j, j + Len(sub) - 1) = sub}
    IN  IF at = {} THEN 0 ELSE CHOOSE j \in at : \A k \in at : j <= k

RECURSIVE Replace(_, _, _)
Replace(s, old, new) ==
    LET j == Find(s, old)
    IN  IF j = 0 THEN s
        ELSE Slice(s, 1, j - 1) \o new \o Replace(From(s, j + Len(old)), old, new)

RECURSIVE Split(_, _)
Split(s, sep) ==
    LET j == Find(s, sep)
    IN  IF j = 0 THEN <<s>>
        ELSE <<Slice(s, 1, j - 1)>> \o Split(From(s, j + Len(sep)), sep)

\* s.split(sep, maxsplit = 1)
SplitOnce(s, sep) ==
    LET j == Find(s, sep)
    IN  IF j = 0 THEN <<s>> ELSE <<Slice(s, 1, j - 1), From(s, j + Len(sep))>>

Whitespace == {" ", "\t", "\n", "\r"}

RECURSIVE LStrip(_)
LStrip(s) == IF s # "" /\ Ch(s, 1) \in Whitespace THEN LStrip(Tail(s)) ELSE s

RECURSIVE RStrip(_)
RStrip(s) == IF s # "" /\ Ch(s, Len(s)) \in Whitespace THEN RStrip(Slice(s, 1, Len(s) - 1)) ELSE s

Strip(s) == RStrip(LStrip(s))

RECURSIVE SplitLines(_)
SplitLines(s) ==
    IF s = "" THEN <<>>
    ELSE LET j == Find(s, "\n")
         IN  IF j = 0 THEN <<s>> ELSE <<Slice(s, 1, j - 1)>> \o SplitLines(From(s, j + 1))

RECURSIVE Join(_)
Join(parts) == IF parts = <<>> THEN "" ELSE Head(parts) \o Join(Tail(parts))

----------------------------------------------------------------------------
(* Character classes of the regular expressions, int(), float() and str() *)

DigitChars == "0123456789"

LetterChars == "abcdefghijklmnopqrstuvwxyzABCDEFGHIJKLMNOPQRSTUVWXYZ"

Digits == {Ch(DigitChars, i) : i \in 1..Len(DigitChars)}

WordChars == Digits \cup {"_"} \cup {Ch(LetterChars, i) : i \in 1..Len(LetterChars)}

IsDigits(s) == s # "" /\ \A i \in 1..Len(s) : Ch(s, i) \in Digits

IsWord(s) == s # "" /\ \A i \in 1..Len(s) : Ch(s, i) \in WordChars

\* length of the longest prefix of s made of word characters
WordPrefixLen(s) ==
    LET stop == {i \in 1..Len(s) : Ch(s, i) \notin WordChars}
    IN  IF stop = {} THEN Len(s) ELSE (CHOOSE i \in stop : \A k \in stop : i <= k) - 1

DigitVal(c) == CHOOSE n \in 0..9 : Ch(DigitChars, n + 1) = c

RECURSIVE StrToNat(_)
StrToNat(s) ==
    IF s = "" THEN 0 ELSE StrToNat(Slice(s, 1, Len(s) - 1)) * 10 + DigitVal(Ch(s, Len(s)))

RECURSIVE NatToStr(_)
NatToStr(n) ==
    IF n < 10 THEN Ch(DigitChars, n + 1) ELSE NatToStr(n \div 10) \o Ch(DigitChars, (n % 10) + 1)

\* int(s) for s matching ^-?\d+$
StrToInt(s) == IF StartsWith(s, "-") THEN 0 - StrToNat(Tail(s)) ELSE StrToNat(s)

\* str(n) for an int
IntToStr(n) == IF n < 0 THEN "-" \o NatToStr(0 - n) ELSE NatToStr(n)

RECURSIVE StripZerosRight(_)
StripZerosRight(s) ==
    IF s # "" /\ Ch(s, Len(s)) = "0" THEN StripZerosRight(Slice(s, 1, Len(s) - 1)) ELSE s

----------------------------------------------------------------------------
(* Python values: None, int, float, bool, str, and a raised exception *)

NoneV == [k |-> "none"]

IntV(n) == [k |-> "int", i |-> n]

\* a float as its decimal expansion: sign, integer part, fraction digits
\* without trailing zeros.  Exact for the short literals of the scripts.
FloatV(neg, ip, fr) == [k |-> "float", neg |-> neg, ip |-> ip, fr |-> fr]

BoolV(b) == [k |-> "bool", b |-> b]

StrV(s) == [k |-> "str", s |-> s]

ListV(l) == [k |-> "list", l |-> l]

Exc(e) == [k |-> "exc", e |-> e]

\* float(s) for s matching ^-?\d+\.\d+$
StrToFloat(s) ==
    LET t == IF StartsWith(s, "-") THEN Tail(s) ELSE s
        j == Find(t, ".")
    IN  FloatV(StartsWith(s, "-"), StrToNat(Slice(t, 1, j - 1)), StripZerosRight(From(t, j + 1)))

\* str(x) for a float in positional notation
FloatToStr(v) ==
    (IF v.neg THEN "-" ELSE "") \o NatToStr(v.ip) \o "." \o (IF v.fr = "" THEN "0" ELSE v.fr)

\* str(x) as used by resolve_str on the result of resolve_num / resolve_str
PyStr(v) ==
    CASE v.k = "none"  -> "None"
      [] v.k = "int"   -> IntToStr(v.i)
      [] v.k = "float" -> FloatToStr(v)
      [] v.k = "str"   -> v.s

\* truth value of `if x:` for the results of resolve_num
Truthy(v) ==
    CASE v.k = "none"  -> FALSE
      [] v.k = "int"   -> v.i # 0
      [] v.k = "float" -> ~(v.ip = 0 /\ v.fr = "")
      [] v.k = "str"   -> v.s # ""
      [] v.k = "list"  -> v.l # <<>>

----------------------------------------------------------------------------
(* dicts: functions from keys to values *)

EmptyDict == <<>>

Has(d, key) == key \in DOMAIN d

DictSet(d, key, val) == [x \in (DOMAIN d) \cup {key} |-> IF x = key THEN val ELSE d[x]]

----------------------------------------------------------------------------
(* parse_gml: the tokenizer *)

\* re.search(r'^([\w_]+)\((.+)\)$', line)
FnMatch(line) ==
    LET n == WordPrefixLen(line)
    IN  /\ n >= 1
        /\ Len(line) >= n + 3
        /\ Ch(line, n + 1) = "("
        /\ Ch(line, Len(line)) = ")"

FnName(line) == Slice(line, 1, WordPrefixLen(line))

FnArgsStr(line) == Slice(line, WordPrefixLen(line) + 2, Len(line) - 1)

\* a tokenizer that never notices a nested call: the flag stays down
NestedAfter_NeverNested(nested, c) == FALSE

\* one pass of the loop over fn_args_str: the flag after looking at character c
NestedAfter(nested, c) ==
    LET opened == IF ~nested /\ c = "(" THEN TRUE ELSE nested
    IN  IF opened /\ c = ")" THEN FALSE ELSE opened

\* the loop of lines 871-880; i and cur are 1-based positions in str
RECURSIVE SplitArgs(_, _, _, _, _)
SplitArgs(str, i, nested, cur, args) ==
    IF i > Len(str) THEN args
    ELSE LET c == Ch(str, i)
             n == NestedAfter(nested, c)
         IN  IF ~n /\ c = ","
             THEN SplitArgs(str, i + 1, n, i + 1, Append(args, Strip(Slice(str, cur, i - 1))))
             ELSE IF i = Len(str)
             THEN SplitArgs(str, i + 1, n, cur, Append(args, Strip(From(str, cur))))
             ELSE SplitArgs(str, i + 1, n, cur, args)

ParseCall(line) == [fn |-> FnName(line), args |-> SplitArgs(FnArgsStr(line), 1, FALSE, 1, <<>>)]

\* re.search(r'^([\w_]+)\[(\d+)\]$', var)
IdxMatch(var) ==
    LET n == WordPrefixLen(var)
    IN  /\ n >= 1
        /\ Len(var) >= n + 3
        /\ Ch(var, n + 1) = "["
        /\ Ch(var, Len(var)) = "]"
        /\ IsDigits(Slice(var, n + 2, Len(var) - 1))

\* an indexed assignment stored under the bare name
AssignKey_IndexDropped(var) ==
    IF IdxMatch(var) THEN Slice(var, 1, WordPrefixLen(var)) ELSE var

\* the key an assignment to var is stored under (lines 893-900)
AssignKey(var) ==
    IF IdxMatch(var)
    THEN LET n == WordPrefixLen(var)
         IN  Slice(var, 1, n) \o ":" \o IntToStr(StrToInt(Slice(var, n + 2, Len(var) - 1)))
    ELSE var

\* a line after the "var " prefix and one trailing ";" are removed
CleanLine(raw) == RemoveSuffix(RemovePrefix(raw, "var "), ";")

\* lines 855-857: indented code is ignored
IsIndented(line) == StartsWith(line, " ")

\* a tokenizer that reads on past a return line
RECURSIVE ParseLines_PastReturn(_, _, _)
ParseLines_PastReturn(lines, tbl, calls) ==
    IF lines = <<>>
    THEN DictSet(tbl, "__calls", ListV(calls))
    ELSE LET line == CleanLine(Head(lines))
             kv == SplitOnce(line, " = ")
         IN  IF IsIndented(line) THEN ParseLines_PastReturn(Tail(lines), tbl, calls)
             ELSE IF FnMatch(line)
             THEN ParseLines_PastReturn(Tail(lines), tbl, Append(calls, ParseCall(line)))
             ELSE IF Len(kv) = 2
             THEN ParseLines_PastReturn(Tail(lines), DictSet(tbl, AssignKey(kv[1]), StrV(kv[2])), calls)
             ELSE ParseLines_PastReturn(Tail(lines), tbl, calls)

RECURSIVE ParseLines(_, _, _)
ParseLines(lines, tbl, calls) ==
    IF lines = <<>> \/ Head(lines) = "return"
    THEN DictSet(tbl, "__calls", ListV(calls))
    ELSE LET line == CleanLine(Head(lines))
             kv == SplitOnce(line, " = ")
         IN  IF IsIndented(line) THEN ParseLines(Tail(lines), tbl, calls)
             ELSE IF FnMatch(line)
             THEN ParseLines(Tail(lines), tbl, Append(calls, ParseCall(line)))
             ELSE IF Len(kv) = 2
             THEN ParseLines(Tail(lines), DictSet(tbl, AssignKey(kv[1]), StrV(kv[2])), calls)
             ELSE ParseLines(Tail(lines), tbl, calls)

parse_gml(text) == ParseLines(SplitLines(text), EmptyDict, <<>>)

----------------------------------------------------------------------------
(* The resolvers.  code is parsed_code at the time of the call.  stack is  *)
(* the set of resolver frames that are open: a frame that opens again with *)
(* the arguments of an open frame recurses without end, which Python ends  *)
(* with RecursionError.                                                    *)

\* dict.get(key, None)
Get(d, key) == IF Has(d, key) THEN d[key] ELSE NoneV

\* var_name.split(":")[0] + ":" + str(index) when index > -1
EffectiveName(var_name, index) ==
    IF index > -1 THEN Head(Split(var_name, ":")) \o ":" \o IntToStr(index) ELSE var_name

\* re.match(r'^-?\d+$', s)
MatchInt(s) == IsDigits(IF StartsWith(s, "-") THEN Tail(s) ELSE s)

\* re.match(r'^-?\d+\.\d+$', s)
MatchFloat(s) ==
    LET t == IF StartsWith(s, "-") THEN Tail(s) ELSE s
        j == Find(t, ".")
    IN  j > 0 /\ IsDigits(Slice(t, 1, j - 1)) /\ IsDigits(From(t, j + 1))

\* line 732: the decorative tokens are removed, then the text is trimmed
StripDecor(s) == Strip(Replace(Replace(Replace(s, "room_speed", ""), "*", ""), "/", ""))

Frame(fn, var_name, obj_names, index) == <<fn, var_name, obj_names, index>>

RECURSIVE resolve_num(_, _, _, _, _)
resolve_num(code, var_name, obj_names, index, stack) ==
    IF Frame("num", var_name, obj_names, index) \in stack THEN Exc("RecursionError")
    ELSE IF Len(obj_names) = 0 THEN NoneV
    ELSE IF ~Has(code, obj_names[1]) THEN Exc("KeyError")
    ELSE LET open == stack \cup {Frame("num", var_name, obj_names, index)}
             name == EffectiveName(var_name, index)
             var_val == Get(code[obj_names[1]], name)
         IN  IF Truthy(var_val)
             THEN IF var_val.k = "list" THEN Exc("AttributeError")
                  ELSE LET v == StripDecor(var_val.s)
                       IN  IF MatchFloat(v) THEN StrToFloat(v)
                           ELSE IF MatchInt(v) THEN IntV(StrToInt(v))
                           ELSE resolve_num(code, v, obj_names, -1, open)
             ELSE resolve_num(code, name, Tail(obj_names), index, open)

\* a resolver for which only the text true is a true literal
IsTrueLiteral_TextOnly(s) == s = "true"

\* line 756: var_val == "true" or var_val == "1"
IsTrueLiteral(s) == s = "true" \/ s = "1"

\* line 758: var_val == "false" or var_val == "1"
IsFalseLiteral(s) == s = "false" \/ s = "1"

RECURSIVE resolve_bool(_, _, _, _, _)
resolve_bool(code, var_name, obj_names, index, stack) ==
    IF Frame("bool", var_name, obj_names, index) \in stack THEN Exc("RecursionError")
    ELSE IF Len(obj_names) = 0 THEN NoneV
    ELSE IF ~Has(code, obj_names[1]) THEN Exc("KeyError")
    ELSE LET open == stack \cup {Frame("bool", var_name, obj_names, index)}
             name == EffectiveName(var_name, index)
             var_val == Get(code[obj_names[1]], name)
         IN  IF var_val.k = "list" THEN Exc("TypeError")
             ELSE IF var_val.k # "none"
             THEN IF IsTrueLiteral(var_val.s) THEN BoolV(TRUE)
                  ELSE IF IsFalseLiteral(var_val.s) THEN BoolV(FALSE)
                  ELSE resolve_bool(code, var_val.s, obj_names, -1, open)
             ELSE resolve_bool(code, name, Tail(obj_names), index, open)

\* line 817: what is done to a part that resolved
PostProcess(s) ==
    Replace(Replace(Replace(RemoveSuffix(s, "\\n"), "\\\"", "\""), "\\n\\n", "; "), "\\n", "; ")

\* re.match(r'^string\((.+)\)$', p)
StrFnMatch(p) == StartsWith(p, "string(") /\ EndsWith(p, ")") /\ Len(p) >= 9

StrFnInner(p) == Slice(p, 8, Len(p) - 1)

\* position of the quote that closes the template of val, 0 when there is none
TemplateEnd(val) == IF StartsWith(val, "\"") THEN
                        (IF Find(Tail(val), "\"") = 0 THEN 0 ELSE Find(Tail(val), "\"") + 1)
                    ELSE 0

\* re.match(r'^"([^"]+)", (\w+)$', val)
StrFormatMatch(val) ==
    LET q == TemplateEnd(val)
    IN  /\ q >= 3
        /\ Slice(val, q + 1, q + 2) = ", "
        /\ IsWord(From(val, q + 3))

FormatTemplate(val) == Slice(val, 2, TemplateEnd(val) - 1)

FormatArg(val) == From(val, TemplateEnd(val) + 3)

\* re.match(r'^\w+\((.+)\)$', p)
CallShaped(p) ==
    LET n == WordPrefixLen(p)
    IN  n >= 1 /\ Len(p) >= n + 3 /\ Ch(p, n + 1) = "(" /\ Ch(p, Len(p)) = ")"

\* lines 813-817: the symbol itself when the part did not resolve
PartOrFallback(add_val, p) ==
    IF add_val.k = "exc" THEN add_val
    ELSE IF add_val.k = "none" THEN StrV(p)
    ELSE StrV(PostProcess(add_val.s))

\* lines 797-802: string("format {0}", arg); num and str are what resolve_num
\* and resolve_str give for the argument (str is used only when num is None)
FormatPart(val, num, str) ==
    LET arg_val == IF num.k = "none" THEN str ELSE num
    IN  IF arg_val.k = "exc" THEN arg_val
        ELSE StrV(Replace(FormatTemplate(val), "{0}", PyStr(arg_val)))

\* lines 803-806: string(<inner>) with any other inner; int_val is what
\* resolve_num gives for the inner text
StringOfNumberPart(int_val) ==
    IF int_val.k = "exc" THEN int_val
    ELSE IF Truthy(int_val) THEN StrV(PyStr(int_val))
    ELSE NoneV

\* lines 781-817: one pass of the loop over parts.  arg_num and arg_str are the
\* results of resolve_num and resolve_str on the template's argument, inner_num
\* of resolve_num on the inner text of string(...), sym_str of resolve_str on p.
resolve_part(p, arg_num, arg_str, inner_num, sym_str) ==
    IF p = "" THEN Exc("IndexError")
    ELSE PartOrFallback(
        IF Ch(p, 1) = "\"" /\ Ch(p, Len(p)) = "\"" THEN StrV(Slice(p, 2, Len(p) - 1))
        ELSE IF MatchFloat(p) THEN StrV(p)
        ELSE IF StrFnMatch(p)
        THEN IF StrFormatMatch(StrFnInner(p))
             THEN FormatPart(StrFnInner(p), arg_num, arg_str)
             ELSE StringOfNumberPart(inner_num)
        ELSE IF CallShaped(p) THEN StrV(p)
        ELSE sym_str, p)

\* a join that puts each part in front of the parts before it
AppendPart_InFront(ret_so_far, add_val) ==
    IF ret_so_far.k = "exc" THEN ret_so_far
    ELSE IF add_val.k = "exc" THEN add_val
    ELSE StrV(add_val.s \o ret_so_far.s)

\* ret.append(add_val) at the end of a pass; an exception ends the loop
AppendPart(ret_so_far, add_val) ==
    IF ret_so_far.k = "exc" THEN ret_so_far
    ELSE IF add_val.k = "exc" THEN add_val
    ELSE StrV(ret_so_far.s \o add_val.s)

RECURSIVE resolve_str(_, _, _, _, _)
resolve_str(code, var_name, obj_names, index, stack) ==
    IF Frame("str", var_name, obj_names, index) \in stack THEN Exc("RecursionError")
    ELSE IF Len(obj_names) = 0 THEN NoneV
    ELSE IF ~Has(code, obj_names[1]) THEN Exc("KeyError")
    ELSE LET open == stack \cup {Frame("str", var_name, obj_names, index)}
             name == EffectiveName(var_name, index)
             var_val == Get(code[obj_names[1]], name)
             parts == Split(var_val.s, " + ")
             add_val(p) ==
                 resolve_part(p,
                     resolve_num(code, FormatArg(StrFnInner(p)), obj_names, -1, open),
                     resolve_str(code, FormatArg(StrFnInner(p)), obj_names, -1, open),
                     resolve_num(code, StrFnInner(p), obj_names, -1, open),
                     resolve_str(code, p, obj_names, -1, open))
             \* ret after the first i passes of the loop, joined
             joined[i \in 0..Len(parts)] ==
                 IF i = 0 THEN StrV("")
                 ELSE IF joined[i - 1].k = "exc" THEN joined[i - 1]
                 ELSE AppendPart(joined[i - 1], add_val(parts[i]))
         IN  IF Truthy(var_val)
             THEN IF var_val.k = "list" THEN Exc("AttributeError")
                  ELSE joined[Len(parts)]
             ELSE resolve_str(code, name, Tail(obj_names), index, open)

\* the loop of resolve_raw from the i-th object on
RECURSIVE resolve_raw_from(_, _, _, _)
resolve_raw_from(code, var_name, obj_names, index) ==
    IF obj_names = <<>> THEN NoneV
    ELSE IF ~Has(code, Head(obj_names)) THEN Exc("KeyError")
    ELSE LET name == EffectiveName(var_name, index)
             var_val == Get(code[Head(obj_names)], name)
         IN  IF Truthy(var_val) THEN var_val
             ELSE resolve_raw_from(code, name, Tail(obj_names), index)

resolve_raw(code, var_name, obj_names, index) == resolve_raw_from(code, var_name, obj_names, index)

----------------------------------------------------------------------------
(* hierarchy_for_object and args_for_calls *)

Range(seq) == {seq[i] : i \in 1..Len(seq)}

\* the while loop; a parent chain that closes on itself never leaves it
RECURSIVE HierarchyLoop(_, _, _)
HierarchyLoop(map, obj_name, obj_list) ==
    IF obj_name \notin DOMAIN map THEN Exc("KeyError")
    ELSE LET parent == map[obj_name]
         IN  IF parent # "" /\ parent # "__NONE__" /\ parent # "oSaveObject"
             THEN IF parent \in Range(obj_list) THEN Exc("Nontermination")
                  ELSE HierarchyLoop(map, parent, Append(obj_list, parent))
             ELSE ListV(obj_list)

hierarchy_for_object(map, obj_name) == HierarchyLoop(map, obj_name, <<obj_name>>)

\* the positions of all calls, whatever their name
RECURSIVE CallPositions_AnyName(_, _, _)
CallPositions_AnyName(calls, call_name, i) ==
    IF i > Len(calls) THEN <<>>
    ELSE <<i>> \o CallPositions_AnyName(calls, call_name, i + 1)

\* the positions in calls of the calls named call_name, in order
RECURSIVE CallPositions(_, _, _)
CallPositions(calls, call_name, i) ==
    IF i > Len(calls) THEN <<>>
    ELSE (IF calls[i].fn = call_name THEN <<i>> ELSE <<>>) \o CallPositions(calls, call_name, i + 1)

args_for_calls(code, obj_name, call_name) ==
    IF ~Has(code, obj_name) \/ ~Has(code[obj_name], "__calls") THEN Exc("KeyError")
    ELSE LET calls == code[obj_name]["__calls"].l
             at == CallPositions(calls, call_name, 1)
         IN  ListV([j \in 1..Len(at) |-> calls[at[j]].args])

----------------------------------------------------------------------------
(* obj_link, proc_crew_keywords and proc_crew_resistances.  The lists that *)
(* args_for_calls returns are the argument lists of the record itself, so  *)
(* args.extend(...) on one of them changes parsed_code: the operators give *)
(* the value together with the record table they leave behind.             *)

\* s.lstrip("o")
RECURSIVE LStripO(_)
LStripO(s) == IF StartsWith(s, "o") THEN LStripO(Tail(s)) ELSE s

RECURSIVE JoinWith(_, _)
JoinWith(parts, sep) ==
    IF parts = <<>> THEN ""
    ELSE IF Len(parts) = 1 THEN Head(parts)
    ELSE Head(parts) \o sep \o JoinWith(Tail(parts), sep)

\* list(dict.fromkeys(args)): the first occurrence of each element, in order;
\* seen holds the elements kept so far
RECURSIVE DedupeFrom(_, _)
DedupeFrom(args, seen) ==
    IF args = <<>> THEN seen
    ELSE DedupeFrom(Tail(args), IF Head(args) \in Range(seen) THEN seen ELSE Append(seen, Head(args)))

Dedupe(args) == DedupeFrom(args, <<>>)

\* line 1096: the link text, from the text found for it
LinkText(obj_name, found) ==
    IF found.k = "exc" THEN found
    ELSE IF found.k = "none" THEN Exc("TypeError")
    ELSE StrV("{" \o LStripO(obj_name) \o "#" \o found.s \o "}")

\* lines 1093-1095: the name of the object, looked up along its hierarchy
NameOf(code, obj_list) ==
    IF obj_list.k = "exc" THEN obj_list ELSE resolve_str(code, "name", obj_list.l, -1, {})

\* text is NoneV when the caller leaves it out
obj_link(map, code, obj_name, text) ==
    LinkText(obj_name,
             IF text.k # "none" THEN text
             ELSE IF obj_name = "" THEN Exc("IndexError")
             ELSE NameOf(code, hierarchy_for_object(map,
                     (IF ~StartsWith(obj_name, "o") THEN "o" ELSE "") \o obj_name)))

\* what a step of the processing layer leaves: a value or a raised exception,
\* and the record table
Left(val, code) == [val |-> val, code |-> code]

\* lines 556-564 and 580-588: the keyword list of a crew object
CrewKeywordArgs(code, obj_list) ==
    LET kw_calls == args_for_calls(code, obj_list[1], "crew_init_keywords")
        own == IF kw_calls.l # <<>> THEN kw_calls.l[1] ELSE <<>>
        parent_kw_calls == args_for_calls(code, obj_list[2], "crew_init_keywords")
        extended == own \o parent_kw_calls.l[1]
        at == CallPositions(code[obj_list[1]]["__calls"].l, "crew_init_keywords", 1)
    IN  IF kw_calls.k = "exc" THEN Left(kw_calls, code)
        ELSE IF Len(obj_list) < 2 THEN Left(Exc("IndexError"), code)
        ELSE IF obj_list[2] = "oCrew" THEN Left(ListV(own), code)
        ELSE IF parent_kw_calls.k = "exc" THEN Left(parent_kw_calls, code)
        ELSE IF parent_kw_calls.l = <<>> THEN Left(ListV(own), code)
        ELSE Left(ListV(Dedupe(extended)),
                  IF kw_calls.l = <<>> THEN code
                  ELSE [code EXCEPT ![obj_list[1]] =
                          DictSet(@, "__calls",
                                  ListV([@["__calls"].l EXCEPT ![at[1]].args = extended]))])

\* lines 571-574: the text of the link, from what resolve_str gave for the name
DescText(kw, kw_desc) ==
    IF kw_desc.k = "none" \/ kw_desc.s = "" THEN StrV(From(kw, 4)) ELSE kw_desc

\* lines 569-574: the link of one keyword, from what resolve_str gave
DescLink(map, code, kw, kw_desc) ==
    IF kw_desc.k = "exc" THEN kw_desc ELSE obj_link(map, code, kw, DescText(kw, kw_desc))

KeywordDesc(map, code, kw) == DescLink(map, code, kw, resolve_str(code, "name", <<kw>>, -1, {}))

\* line 575: kws.append(kw_desc); kws is the list so far
AppendDesc(kws, desc) == IF desc.k = "exc" THEN desc ELSE ListV(Append(kws.l, desc.s))

\* lines 566-575: one pass of the loop over the keywords
KeywordPass(map, code, kw, kws) ==
    IF StartsWith(kw, "oKWFaction") THEN kws ELSE AppendDesc(kws, KeywordDesc(map, code, kw))

\* lines 566-575: the loop over the keywords
RECURSIVE KeywordDescs(_, _, _, _)
KeywordDescs(map, code, args, kws) ==
    IF args = <<>> \/ kws.k = "exc" THEN kws
    ELSE KeywordDescs(map, code, Tail(args), KeywordPass(map, code, Head(args), kws))

\* line 576: "; ".join(kws)
JoinedKeywords(kws, code) ==
    IF kws.k = "exc" THEN Left(kws, code) ELSE Left(StrV(JoinWith(kws.l, "; ")), code)

\* lines 566-576, from the keyword list args and the record table it left
KeywordsOf(map, args) ==
    IF args.val.k = "exc" THEN args
    ELSE JoinedKeywords(KeywordDescs(map, args.code, args.val.l, ListV(<<>>)), args.code)

proc_crew_keywords(map, code, obj_list) ==
    CHOOSE left \in {KeywordsOf(map, args) : args \in {CrewKeywordArgs(code, obj_list)}} : TRUE

\* re.match(r'oEF(\w+)Resistance', s): the positions where Resistance can start
ResistanceStarts(s) ==
    {i \in 5..(WordPrefixLen(s) - 9) : Slice(s, i, i + 9) = "Resistance"}

ResMatch(s) == StartsWith(s, "oEF") /\ ResistanceStarts(s) # {}

\* group(1): \w+ is greedy, so the last start is taken
ResGroup(s) ==
    Slice(s, 4, (CHOOSE i \in ResistanceStarts(s) : \A j \in ResistanceStarts(s) : j <= i) - 1)

\* re.match(r'-?\d+', s): a prefix match
MatchIntPrefix(s) ==
    LET t == IF StartsWith(s, "-") THEN Tail(s) ELSE s
    IN  t # "" /\ Ch(t, 1) \in Digits

\* int(x) for a str (surrounding whitespace and a sign allowed), a number or None
PyInt(v) ==
    LET t == Strip(v.s)
        u == IF StartsWith(t, "+") THEN Tail(t) ELSE t
    IN  CASE v.k = "none"  -> Exc("TypeError")
          [] v.k = "int"   -> v
          [] v.k = "float" -> IntV(IF v.neg THEN 0 - v.ip ELSE v.ip)
          [] v.k = "str"   -> IF MatchInt(u) /\ ~StartsWith(t, "+-") THEN IntV(StrToInt(u))
                              ELSE Exc("ValueError")

\* min(100, n * -1)
NegatedAtMost100(n) == IF n.k = "exc" THEN n ELSE IntV(IF 0 - n.i < 100 THEN 0 - n.i ELSE 100)

proc_resistance_value(effect_name, value_str) ==
    IF EndsWith(effect_name, "Resistance") THEN NegatedAtMost100(PyInt(value_str)) ELSE value_str

\* line 600: entry[...] = value
SetResistance(entry, effect_name, value) ==
    IF value.k = "exc" THEN value
    ELSE [k |-> "dict", d |-> DictSet(entry.d, "res:" \o ResGroup(effect_name) \o " Resistance", value)]

\* line 600, from the value res_val has after lines 598-599
ResistanceFrom(entry, effect_name, res_val) ==
    IF res_val.k = "exc" THEN res_val
    ELSE SetResistance(entry, effect_name, proc_resistance_value(effect_name, res_val))

\* lines 596-600: one pass of the loop over the effect_add calls of kw; entry
\* is the dict so far
EffectPass(code, kw, args, entry) ==
    IF Len(args) < 1 THEN Exc("IndexError")
    ELSE IF ~ResMatch(args[1]) THEN entry
    ELSE IF Len(args) < 2 THEN Exc("IndexError")
    ELSE ResistanceFrom(entry, args[1],
            IF MatchIntPrefix(args[2]) THEN StrV(args[2])
            ELSE resolve_num(code, args[2], <<kw>>, -1, {}))

RECURSIVE EffectPasses(_, _, _, _)
EffectPasses(code, kw, calls, entry) ==
    IF calls = <<>> \/ entry.k = "exc" THEN entry
    ELSE EffectPasses(code, kw, Tail(calls), EffectPass(code, kw, Head(calls), entry))

\* lines 595-600: the effect_add calls of one keyword
EffectsOf(code, kw, calls, entry) ==
    IF calls.k = "exc" THEN calls ELSE EffectPasses(code, kw, calls.l, entry)

\* lines 594-600: the loop over the keywords
RECURSIVE ResistancePasses(_, _, _)
ResistancePasses(code, args, entry) ==
    IF args = <<>> \/ entry.k = "exc" THEN entry
    ELSE ResistancePasses(code, Tail(args),
            EffectsOf(code, Head(args), args_for_calls(code, Head(args), "effect_add"), entry))

\* the three entries set before the loop
NoResistances ==
    [k |-> "dict",
     d |-> [key \in {"res:Fire Resistance", "res:Poison Resistance", "res:Vacuum Resistance"} |-> IntV(0)]]

\* lines 590-600, from the keyword list args and the record table it left
ResistancesOf(args) ==
    IF args.val.k = "exc" THEN args
    ELSE Left(ResistancePasses(args.code, args.val.l, NoResistances), args.code)

\* the value is what the call leaves in entry
proc_crew_resistances(code, obj_list) ==
    CHOOSE left \in {ResistancesOf(args) : args \in {CrewKeywordArgs(code, obj_list)}} : TRUE

----------------------------------------------------------------------------
(* patch_object_code for the object kinds of the modelled worlds: chains   *)
(* that end in oCrew, oKeyword or oItem, or in none of the five roots.     *)
(* No modelled object descends from oWeapon or oEffect.                    *)

\* patch_item: the two spelling fixes of the description
patch_item(tbl) ==
    IF Truthy(Get(tbl, "description"))
    THEN DictSet(tbl, "description",
            StrV(Replace(Replace(tbl["description"].s, "Bloatmite", "Bloat Mite"),
                         "an enchanted sword", "a Wraithblade")))
    ELSE tbl

patch_crew(tbl) == IF Has(tbl, "baseName") THEN DictSet(tbl, "name", tbl["baseName"]) ELSE tbl

\* what a patch function gives: the patched dict, or the exception it raises
Patched(tbl) == [ok |-> TRUE, tbl |-> tbl]

Raised(e) == [ok |-> FALSE, e |-> e]

\* line 991, from what resolve_str gave for the name
FactionDescription(tbl, n) ==
    IF n.k = "exc" THEN Raised(n.e)
    ELSE IF n.k = "none" THEN Raised("TypeError")
    ELSE Patched(DictSet(tbl, "description", StrV("\"" \o n.s \o " Faction\"")))

patch_keyword(code, tbl, name) ==
    IF StartsWith(name, "oKWFaction_")
    THEN FactionDescription(tbl, resolve_str(code, "name", <<name>>, -1, {}))
    ELSE IF name = "oKWMindControlled"
    THEN IF ~Has(tbl, "__calls") THEN Raised("KeyError")
         ELSE Patched(DictSet(tbl, "__calls",
                ListV(Append(tbl["__calls"].l, [fn |-> "effect_add", args |-> <<"oEFMindControlled", "0">>]))))
    ELSE IF ~Has(tbl, "description") /\ Has(tbl, "str_label")
    THEN Patched(DictSet(tbl, "description", tbl["str_label"]))
    ELSE Patched(tbl)

\* one pass of the loop of patch_object_code
patch_for(code, obj_name, obj_list) ==
    LET root == obj_list.l[Len(obj_list.l)]
    IN  IF obj_list.k = "exc" THEN Raised(obj_list.e)
        ELSE IF root = "oKeyword" THEN patch_keyword(code, code[obj_name], obj_name)
        ELSE IF root = "oCrew" THEN Patched(patch_crew(code[obj_name]))
        ELSE IF root = "oItem" THEN Patched(patch_item(code[obj_name]))
        ELSE Patched(code[obj_name])

patch_one(map, code, obj_name) == patch_for(code, obj_name, hierarchy_for_object(map, obj_name))

\* every object is patched from its own record alone, so the order of the loop
\* does not show in the result
patch_all(map, code) == [o \in DOMAIN code |-> patch_one(map, code, o)]

----------------------------------------------------------------------------
(* run(): parse_object_code, patch_object_code, then the processing layer  *)
(* calling the resolvers and the call query.                               *)

NoCall == [fn |-> "", name |-> "", objs |-> <<>>, index |-> -1, val |-> NoneV]

Returned(fn, name, objs, index, val) ==
    [fn |-> fn, name |-> name, objs |-> objs, index |-> index, val |-> val]

\* records created empty, the scripts left untokenized
ParseObjectCode_Untokenized ==
    /\ pc = "loaded"
    /\ parsed_code' = [o \in DOMAIN objParentMap |-> EmptyDict]
    /\ pc' = "parsed"
    /\ UNCHANGED <<objParentMap, gml, ret>>

\* parse_object_code: one record per object of the parent map
ParseObjectCode ==
    /\ pc = "loaded"
    /\ parsed_code' = [o \in DOMAIN objParentMap |->
                          IF Truthy(gml[o]) THEN parse_gml(gml[o].s) ELSE EmptyDict]
    /\ pc' = "parsed"
    /\ UNCHANGED <<objParentMap, gml, ret>>

\* patch_object_code; an exception ends the run
PatchObjectCode ==
    /\ pc = "parsed"
    /\ \E patched \in {patch_all(objParentMap, parsed_code)} :
          IF \E o \in DOMAIN patched : ~patched[o].ok
          THEN /\ pc' = "crashed"
               /\ UNCHANGED parsed_code
          ELSE /\ pc' = "proc"
               /\ parsed_code' = [o \in DOMAIN patched |-> patched[o].tbl]
    /\ UNCHANGED <<objParentMap, gml, ret>>

\* the longest keyword list a record may hold when a crew object is processed
MaxKeywordArgs == 3

\* no crew_init_keywords call of the object holds more than MaxKeywordArgs arguments
KeywordArgsWithin(code, obj_name) ==
    Has(code[obj_name], "__calls") =>
        \A i \in 1..Len(code[obj_name]["__calls"].l) :
            Len(code[obj_name]["__calls"].l[i].args) <= MaxKeywordArgs

\* a call of the processing layer returns val, or raises and ends the run
Return(fn, name, objs, index, val) ==
    /\ ret' = Returned(fn, name, objs, index, val)
    /\ pc' = IF val.k = "exc" THEN "crashed" ELSE "returned"

CallResolveNum(var_name, obj_names, index) ==
    /\ pc = "proc"
    /\ Return("resolve_num", var_name, obj_names, index,
              resolve_num(parsed_code, var_name, obj_names, index, {}))
    /\ UNCHANGED <<objParentMap, gml, parsed_code>>

CallResolveBool(var_name, obj_names, index) ==
    /\ pc = "proc"
    /\ Return("resolve_bool", var_name, obj_names, index,
              resolve_bool(parsed_code, var_name, obj_names, index, {}))
    /\ UNCHANGED <<objParentMap, gml, parsed_code>>

CallResolveStr(var_name, obj_names, index) ==
    /\ pc = "proc"
    /\ Return("resolve_str", var_name, obj_names, index,
              resolve_str(parsed_code, var_name, obj_names, index, {}))
    /\ UNCHANGED <<objParentMap, gml, parsed_code>>

CallResolveRaw(var_name, obj_names, index) ==
    /\ pc = "proc"
    /\ Return("resolve_raw", var_name, obj_names, index,
              resolve_raw(parsed_code, var_name, obj_names, index))
    /\ UNCHANGED <<objParentMap, gml, parsed_code>>

CallArgsForCalls(obj_name, call_name) ==
    /\ pc = "proc"
    /\ Return("args_for_calls", call_name, <<obj_name>>, -1,
              args_for_calls(parsed_code, obj_name, call_name))
    /\ UNCHANGED <<objParentMap, gml, parsed_code>>

\* proc_object_code reaches proc_crew / proc_commander with the hierarchy of a
\* crew object; the two steps of it that read the calls of the records
ProcCrewResistances(obj_name) ==
    /\ pc = "proc"
    /\ KeywordArgsWithin(parsed_code, obj_name)
    /\ \E obj_list \in {hierarchy_for_object(objParentMap, obj_name)} :
          IF obj_list.k = "exc"
          THEN /\ Return("proc_crew_resistances", obj_name, <<>>, -1, obj_list)
               /\ UNCHANGED parsed_code
          ELSE \E left \in {proc_crew_resistances(parsed_code, obj_list.l)} :
                  /\ Return("proc_crew_resistances", obj_name, obj_list.l, -1, left.val)
                  /\ parsed_code' = left.code
    /\ UNCHANGED <<objParentMap, gml>>

ProcCrewKeywords(obj_name) ==
    /\ pc = "proc"
    /\ KeywordArgsWithin(parsed_code, obj_name)
    /\ \E obj_list \in {hierarchy_for_object(objParentMap, obj_name)} :
          IF obj_list.k = "exc"
          THEN /\ Return("proc_crew_keywords", obj_name, <<>>, -1, obj_list)
               /\ UNCHANGED parsed_code
          ELSE \E left \in {proc_crew_keywords(objParentMap, parsed_code, obj_list.l)} :
                  /\ Return("proc_crew_keywords", obj_name, obj_list.l, -1, left.val)
                  /\ parsed_code' = left.code
    /\ UNCHANGED <<objParentMap, gml>>

\* the caller takes the value and goes on
TakeResult ==
    /\ pc = "returned"
    /\ pc' = "proc"
    /\ ret' = NoCall
    /\ UNCHANGED <<objParentMap, gml, parsed_code>>

----------------------------------------------------------------------------
(* The resolver worlds: object oA with parent oB.  oA's script assigns a   *)
(* and b from the value pools (or leaves them out), oB's script is one of  *)
(* a few one-line scripts.                                                 *)

MaxIndex == 0

Assign(key, val) == key \o " = " \o val

JoinLines(l1, l2) == IF l1 = "" THEN l2 ELSE IF l2 = "" THEN l1 ELSE l1 \o "\n" \o l2

File(text) == IF text = "" THEN NoneV ELSE StrV(text)

ResValsA ==
    { "10", "b", "a", "", "b + ", " + ", "true", "1", "false", "nope",
      "\"Deals \" + string(\"{0} dmg\", b)",
      "string(\"x {0} y\", nope)",
      "nope + \"!\"",
      "\"a\\n\" + \"b\"",
      "string(b)",
      "room_speed * 2" }

ResValsB == { "5", "7.5", "a", "0", "\"hi\"", "true", "false" }

ResScriptsB == { "", "a = 10", "a = b", "b = 7.5", "a[0] = 3", "b = \"up\"" }

ResLinesA == {""} \cup {Assign("a", v) : v \in ResValsA}

ResLinesB == {""} \cup {Assign("b", v) : v \in ResValsB}

ResNames == {"a", "b"}

ResLists == { <<"oA", "oB">>, <<"oA">>, <<"oB">> }

ResIndexes == -1..MaxIndex

InitRes ==
    /\ objParentMap = [o \in {"oA", "oB"} |-> IF o = "oA" THEN "oB" ELSE "__NONE__"]
    /\ \E la \in ResLinesA, lb \in ResLinesB, sb \in ResScriptsB :
          gml = [o \in {"oA", "oB"} |-> IF o = "oA" THEN File(JoinLines(la, lb)) ELSE File(sb)]
    /\ parsed_code = <<>>
    /\ pc = "loaded"
    /\ ret = NoCall

NextRes ==
    \/ ParseObjectCode
    \/ PatchObjectCode
    \/ \E n \in ResNames, l \in ResLists, i \in ResIndexes : CallResolveNum(n, l, i)
    \/ \E n \in ResNames, l \in ResLists, i \in ResIndexes : CallResolveBool(n, l, i)
    \/ \E n \in ResNames, l \in ResLists, i \in ResIndexes : CallResolveStr(n, l, i)
    \/ \E n \in ResNames, l \in ResLists, i \in ResIndexes : CallResolveRaw(n, l, i)
    \/ TakeResult

SpecRes == InitRes /\ [][NextRes]_vars

----------------------------------------------------------------------------
(* The tokenizer worlds: one object oA whose script is up to MaxLines      *)
(* lines of TokLines.                                                      *)

MaxLines == 2

NestedQuotedLine == "x(1, foo(2, 3), \"a,b\")"

DeepNestedLine == "f(a(b(1), 2), 3)"

TokLines ==
    { NestedQuotedLine,
      DeepNestedLine,
      "h(p(1, 2), q(3, 4));",
      "hp[2] = 5",
      "var hp[2] = 6;",
      "hp = 1",
      "return",
      "  a = 2",
      "\ta = 3",
      "a.b = 1",
      "if (x = 1)",
      "c = d;;" }

RECURSIVE TokScriptsOf(_)
TokScriptsOf(n) ==
    IF n = 0 THEN {""}
    ELSE LET shorter == TokScriptsOf(n - 1)
         IN  shorter \cup {JoinLines(t, l) : t \in shorter, l \in TokLines}

TokFnNames == {"x", "f", "h"}

InitTok ==
    /\ objParentMap = [o \in {"oA"} |-> "__NONE__"]
    /\ \E t \in TokScriptsOf(MaxLines) : gml = [o \in {"oA"} |-> File(t)]
    /\ parsed_code = <<>>
    /\ pc = "loaded"
    /\ ret = NoCall

NextTok ==
    \/ ParseObjectCode
    \/ PatchObjectCode
    \/ \E f \in TokFnNames : CallArgsForCalls("oA", f)
    \/ TakeResult

SpecTok == InitTok /\ [][NextTok]_vars

----------------------------------------------------------------------------
(* Claims about the tokenizer, checked under SpecTok *)

\* the lines of oA's script that the tokenizer reaches: those before the
\* first line that is exactly "return"
RECURSIVE LiveLines(_)
LiveLines(lines) ==
    IF lines = <<>> \/ Head(lines) = "return" THEN <<>>
    ELSE <<Head(lines)>> \o LiveLines(Tail(lines))

ScriptLines == IF Truthy(gml["oA"]) THEN LiveLines(SplitLines(gml["oA"].s)) ELSE <<>>

\* how many live lines of the script are the line l
Occurrences(l) == Cardinality({i \in 1..Len(ScriptLines) : ScriptLines[i] = l})

Copies(n, x) == [i \in 1..n |-> x]

Tokenized == pc \in {"parsed", "proc", "returned"} /\ Has(parsed_code["oA"], "__calls")

\* C4 as the spec states it: the line x(1, foo(2, 3), "a,b") gives one Call
\* Invocation per occurrence, with exactly 3 arguments: 1, foo(2, 3) and "a,b".
C4_QuotedStringKeptWhole ==
    (Tokenized /\ Occurrences(NestedQuotedLine) > 0) =>
        args_for_calls(parsed_code, "oA", "x").l =
            Copies(Occurrences(NestedQuotedLine), <<"1", "foo(2, 3)", "\"a,b\"">>)

\* C4 as amended: the line x(1, foo(2, 3), "a,b") gives one Call Invocation per
\* occurrence, whose second argument is the text foo(2, 3) unsplit; the comma
\* inside the quoted string splits it, so the invocation has exactly 4
\* arguments: 1, foo(2, 3), "a and b".
C4_NestedCallKeptQuotedStringSplit ==
    (Tokenized /\ Occurrences(NestedQuotedLine) > 0) =>
        args_for_calls(parsed_code, "oA", "x").l =
            Copies(Occurrences(NestedQuotedLine), <<"1", "foo(2, 3)", "\"a", "b\"">>)

C4_Witness ==
    /\ Tokenized
    /\ Occurrences(NestedQuotedLine) = 1
    /\ Len(parsed_code["oA"]["__calls"].l) = 1
    /\ Len(parsed_code["oA"]["__calls"].l[1].args) = 4
    /\ parsed_code["oA"]["__calls"].l[1].args[2] = "foo(2, 3)"

\* the split the spec describes: a depth counter, up on "(" and down on ")",
\* and a comma splits only at depth 0
RECURSIVE DepthSplit(_, _, _, _)
DepthSplit(str, i, depth, cur) ==
    IF i > Len(str) THEN <<Strip(From(str, cur))>>
    ELSE IF Ch(str, i) = "(" THEN DepthSplit(str, i + 1, depth + 1, cur)
    ELSE IF Ch(str, i) = ")" THEN DepthSplit(str, i + 1, depth - 1, cur)
    ELSE IF Ch(str, i) = "," /\ depth = 0
    THEN <<Strip(Slice(str, cur, i - 1))>> \o DepthSplit(str, i + 1, depth, i + 1)
    ELSE DepthSplit(str, i + 1, depth, cur)

\* the live call lines of the script, in order, as the tokenizer classifies them
RECURSIVE CallLines(_)
CallLines(lines) ==
    IF lines = <<>> THEN <<>>
    ELSE (IF ~IsIndented(CleanLine(Head(lines))) /\ FnMatch(CleanLine(Head(lines)))
          THEN <<CleanLine(Head(lines))>> ELSE <<>>) \o CallLines(Tail(lines))

\* C5: every recorded call has the arguments that splitting its line at the
\* commas of parenthesis depth 0 gives, at every nesting depth; the line
\* f(a(b(1), 2), 3) has exactly the 2 arguments a(b(1), 2) and 3.
C5_SplitOnlyAtDepthZero ==
    Tokenized =>
        LET calls == parsed_code["oA"]["__calls"].l
            lines == CallLines(ScriptLines)
        IN  /\ Len(calls) = Len(lines)
            /\ \A i \in 1..Len(calls) :
                  calls[i].args = DepthSplit(FnArgsStr(lines[i]), 1, 0, 1)
            /\ Occurrences(DeepNestedLine) > 0 =>
                  args_for_calls(parsed_code, "oA", "f").l =
                      Copies(Occurrences(DeepNestedLine), <<"a(b(1), 2)", "3">>)

----------------------------------------------------------------------------
(* The crew worlds: oCrewC is a child of oCrewP or of oCrew, oCrewP a child *)
(* of oCrew; oKWA and oKWB are keywords (children of oKeyword).  The crew   *)
(* scripts name their keywords with crew_init_keywords, the keyword scripts *)
(* give a name and resistances with effect_add.                             *)

CrewObjects == {"oCrew", "oCrewP", "oCrewC", "oKeyword", "oKWA", "oKWB"}

CrewNames == {"oCrewP", "oCrewC"}

CrewParentMaps ==
    { [o \in CrewObjects |->
         CASE o = "oCrewC" -> p
           [] o = "oCrewP" -> "oCrew"
           [] o \in {"oKWA", "oKWB"} -> "oKeyword"
           [] OTHER -> "__NONE__"] : p \in {"oCrewP", "oCrew"} }

CrewScriptsC ==
    { "crew_init_keywords(oKWA)",
      "baseName = \"Child\"\ncrew_init_keywords(oKWA)\ncrew_init_keywords(oKWB)",
      "baseName = \"Child\"",
      "crew_init_keywords(oKWZ)",
      "" }

CrewScriptsP ==
    { "crew_init_keywords(oKWB)",
      "crew_init_keywords(oKWA, oKWB)",
      "baseName = \"Parent\"",
      "" }

KeywordScriptsA ==
    { "name = \"Tough\"\neffect_add(oEFFireResistance, -50)",
      "effect_add(oEFPoisonResistance, res)\nres = -25",
      "" }

KeywordScriptsB ==
    { "name = \"Void\"\neffect_add(oEFVacuumResistance, -100)",
      "str_label = \"lbl\"\neffect_add(oEFStun, 1)",
      "effect_add(oEFFireResistance, 7.5)" }

CrewQueries == { <<"name", <<"oKWA">>>>, <<"name", <<"oCrewC", "oCrewP", "oCrew">>>>, <<"res", <<"oKWA">>>> }

CallNames == {"crew_init_keywords", "effect_add"}

Init ==
    /\ objParentMap \in CrewParentMaps
    /\ \E c \in CrewScriptsC, p \in CrewScriptsP, a \in KeywordScriptsA, b \in KeywordScriptsB :
          gml = [o \in CrewObjects |->
                    CASE o = "oCrewC" -> File(c)
                      [] o = "oCrewP" -> File(p)
                      [] o = "oKWA" -> File(a)
                      [] o = "oKWB" -> File(b)
                      [] o = "oCrew" -> File("baseMaxHP = 10")
                      [] OTHER -> NoneV]
    /\ parsed_code = <<>>
    /\ pc = "loaded"
    /\ ret = NoCall

Next ==
    \/ ParseObjectCode
    \/ PatchObjectCode
    \/ \E q \in CrewQueries : CallResolveNum(q[1], q[2], -1)
    \/ \E q \in CrewQueries : CallResolveBool(q[1], q[2], -1)
    \/ \E q \in CrewQueries : CallResolveStr(q[1], q[2], -1)
    \/ \E q \in CrewQueries : CallResolveRaw(q[1], q[2], -1)
    \/ \E o \in CrewObjects, f \in CallNames : CallArgsForCalls(o, f)
    \/ \E o \in CrewNames : ProcCrewResistances(o)
    \/ \E o \in CrewNames : ProcCrewKeywords(o)
    \/ TakeResult

Spec == Init /\ [][Next]_vars

\* the values map of a record
ValuesOf(code, o) == [key \in DOMAIN code[o] \ {"__calls"} |-> code[o][key]]

\* a step keeps every record: the call queries and the values maps
RecordsKept ==
    /\ \A o \in CrewObjects, f \in CallNames :
          args_for_calls(parsed_code', o, f) = args_for_calls(parsed_code, o, f)
    /\ \A o \in CrewObjects : ValuesOf(parsed_code', o) = ValuesOf(parsed_code, o)

\* C3: once the record table is built and patched, no resolver call, call
\* query or processing step changes a record: every calls_for(o, f) gives the
\* same argument sequences after the step as before it, and every values map
\* is the same.  Stated for the steps that return normally.
C3_RecordsUnchangedAfterPatching ==
    [][(pc = "proc" /\ pc' = "returned") => RecordsKept]_vars

----------------------------------------------------------------------------
(* Claims about the resolvers, checked under SpecRes.  ret holds the last  *)
(* resolver call: its name, hierarchy and index, and what it gave.         *)

MaxAliasSteps == 4

IsResolver(fn) == fn \in {"resolve_raw", "resolve_num", "resolve_bool", "resolve_str"}

RetKey == EffectiveName(ret.name, ret.index)

\* chain search as the spec states it: the first object of the hierarchy in
\* whose record the key is present; 0 when there is none
DefIndex(code, objs, key) ==
    LET at == {i \in 1..Len(objs) : Has(code[objs[i]], key)}
    IN  IF at = {} THEN 0 ELSE CHOOSE i \in at : \A j \in at : i <= j

\* the first object of the hierarchy whose record holds a non-empty raw value
\* under the key; 0 when there is none
FoundIndex(code, objs, key) ==
    LET at == {i \in 1..Len(objs) : Truthy(Get(code[objs[i]], key))}
    IN  IF at = {} THEN 0 ELSE CHOOSE i \in at : \A j \in at : i <= j

Suffix(objs, i) == SubSeq(objs, i, Len(objs))

\* name is on an alias cycle of obj's record: name = name, or name = m and m = name
OnAliasCycle(code, obj, name) ==
    /\ Has(code[obj], name)
    /\ LET m == code[obj][name].s
       IN  m = name \/ (Has(code[obj], m) /\ code[obj][m].s = name)

\* C1: resolve_number on a name of an alias cycle (a = b and b = a on one
\* object, or a = a) terminates and returns Absent; it ends in no fatal error.
C1_AliasCycleReturnsAbsent ==
    (ret.fn = "resolve_num" /\ ret.index = -1
        /\ OnAliasCycle(parsed_code, ret.objs[1], ret.name)) =>
            (pc = "returned" /\ ret.val = NoneV)

\* C2: every call of resolve_raw, resolve_number, resolve_bool and
\* resolve_string on objects of the record table ends with a Resolved Value or
\* Absent: no exception propagates out of it.
C2_NoExceptionEscapes ==
    IsResolver(ret.fn) =>
        (pc = "returned" /\ ret.val.k \in {"none", "int", "float", "bool", "str"})

\* the number a raw text stands for when it is a numeric literal
IsNumLiteral(r) == MatchFloat(r) \/ MatchInt(r)

NumLiteral(r) == IF MatchFloat(r) THEN StrToFloat(r) ELSE IntV(StrToInt(r))

\* C6: resolve_number takes the definition nearest to the front of the
\* hierarchy: with no definition the result is Absent, a literal there is the
\* result, and anything else there is followed as an alias; a definition
\* farther back is used only when no nearer object defines the key.
C6_NearestDefinitionWins ==
    (pc = "returned" /\ ret.fn = "resolve_num") =>
        LET i == DefIndex(parsed_code, ret.objs, RetKey)
            r == StripDecor(parsed_code[ret.objs[i]][RetKey].s)
        IN  IF i = 0 THEN ret.val = NoneV
            ELSE IF IsNumLiteral(r) THEN ret.val = NumLiteral(r)
            ELSE ret.val \in { resolve_num(parsed_code, r, ret.objs, -1, {}),
                               resolve_num(parsed_code, r, Suffix(ret.objs, i), -1, {}) }

\* C7: a raw value that is no numeric literal is resolved as an alias against
\* the hierarchy H that was passed to the call, from H's first object on, also
\* when the alias was found on an ancestor.
C7_AliasResolvedInCallersHierarchy ==
    (pc = "returned" /\ ret.fn = "resolve_num") =>
        LET i == FoundIndex(parsed_code, ret.objs, RetKey)
            r == StripDecor(parsed_code[ret.objs[i]][RetKey].s)
        IN  (i > 0 /\ ~IsNumLiteral(r)) =>
                ret.val = resolve_num(parsed_code, r, ret.objs, -1, {})

\* what following aliases from key reaches: a boolean literal, an attribute
\* that no object defines, or nothing within the given number of steps
Reached(s) == [t |-> "raw", s |-> s]

ReachedNothing == [t |-> "absent"]

ReachedNoEnd == [t |-> "loop"]

RECURSIVE FollowBool(_, _, _, _)
FollowBool(code, key, objs, steps) ==
    LET i == DefIndex(code, objs, key)
        r == code[objs[i]][key].s
    IN  IF i = 0 THEN ReachedNothing
        ELSE IF r \in {"true", "1", "false"} THEN Reached(r)
        ELSE IF steps = 0 THEN ReachedNoEnd
        ELSE FollowBool(code, r, Suffix(objs, i), steps - 1)

\* C8: resolve_bool gives True exactly when the raw value finally reached is
\* true or 1, False exactly when it is false, follows any other raw value as an
\* alias, and gives Absent when the alias names an attribute no object defines.
C8_BoolLiterals ==
    (pc = "returned" /\ ret.fn = "resolve_bool") =>
        LET end == FollowBool(parsed_code, RetKey, ret.objs, MaxAliasSteps)
        IN  /\ ret.val = BoolV(TRUE) <=> end \in {Reached("true"), Reached("1")}
            /\ ret.val = BoolV(FALSE) <=> end = Reached("false")
            /\ end = ReachedNothing => ret.val = NoneV
            /\ end # ReachedNoEnd

\* an alias was followed to a literal: a = b with b = true, asked for a
C8_Witness ==
    /\ pc = "returned" /\ ret.fn = "resolve_bool" /\ ret.name = "a" /\ ret.objs = <<"oA">>
    /\ Get(parsed_code["oA"], "a") = StrV("b")
    /\ Get(parsed_code["oA"], "b") = StrV("true")
    /\ ret.val = BoolV(TRUE)

\* the concatenation parts of the raw value the last resolve_str call worked
\* on, and the hierarchy from the object that holds it
StrFound == FoundIndex(parsed_code, ret.objs, RetKey)

StrHierarchy == Suffix(ret.objs, StrFound)

StrParts == Split(parsed_code[ret.objs[StrFound]][RetKey].s, " + ")

\* a part resolved on its own: the part is stored alone under a key of its own
\* on the first object of objs and that key is resolved
PartKey == "part$"

PartAlone(code, objs, p) ==
    resolve_str([code EXCEPT ![objs[1]] = DictSet(@, PartKey, StrV(p))], PartKey, objs, -1, {})

IsTemplatePart(p) == StrFnMatch(p) /\ StrFormatMatch(StrFnInner(p))

TemplateOf(p) == FormatTemplate(StrFnInner(p))

ArgNum(p) == resolve_num(parsed_code, FormatArg(StrFnInner(p)), StrHierarchy, -1, {})

ArgStr(p) == resolve_str(parsed_code, FormatArg(StrFnInner(p)), StrHierarchy, -1, {})

DealsRaw == "\"Deals \" + string(\"{0} dmg\", b)"

\* C9: the text resolve_string gives is the results of its concatenation
\* parts, each resolved on its own, joined in source order; a template part
\* string("<template>", arg) is the template with {0} replaced by arg resolved
\* as a number, or as a string when the number is Absent ("Deals " +
\* string("{0} dmg", b) with b = 5 gives Deals 5 dmg).
C9_PartsJoinedInOrder ==
    (pc = "returned" /\ ret.fn = "resolve_str" /\ ret.val.k = "str") =>
        LET each == [j \in 1..Len(StrParts) |-> PartAlone(parsed_code, StrHierarchy, StrParts[j])]
        IN  /\ \A j \in 1..Len(StrParts) : each[j].k = "str"
            /\ ret.val.s = Join([j \in 1..Len(StrParts) |-> each[j].s])
            /\ \A j \in 1..Len(StrParts) :
                  LET p == StrParts[j]
                  IN  IsTemplatePart(p) =>
                        /\ ArgNum(p).k \in {"int", "float"} =>
                              each[j].s = PostProcess(Replace(TemplateOf(p), "{0}", PyStr(ArgNum(p))))
                        /\ (ArgNum(p).k = "none" /\ ArgStr(p).k = "str") =>
                              each[j].s = PostProcess(Replace(TemplateOf(p), "{0}", ArgStr(p).s))
            /\ (StrParts = Split(DealsRaw, " + ") /\ ArgNum(StrParts[2]) = IntV(5)) =>
                  ret.val.s = "Deals 5 dmg"

\* a = "Deals " + string("{0} dmg", b) with b = 5 was resolved
C9_Witness ==
    /\ pc = "returned" /\ ret.fn = "resolve_str" /\ ret.name = "a" /\ ret.index = -1
    /\ ret.objs[1] = "oA"
    /\ Get(parsed_code["oA"], "a") = StrV(DealsRaw)
    /\ Get(parsed_code["oA"], "b") = StrV("5")
    /\ ret.val = StrV("Deals 5 dmg")

\* a part that resolves to no value: a template part whose argument is
\* neither a number nor a string, or an identifier that no object defines
IsIdentifierPart(p) ==
    /\ p # ""
    /\ ~(Ch(p, 1) = "\"" /\ Ch(p, Len(p)) = "\"")
    /\ ~MatchFloat(p)
    /\ ~StrFnMatch(p)
    /\ ~CallShaped(p)

Unresolvable(p) ==
    \/ IsTemplatePart(p) /\ ArgNum(p) = NoneV /\ ArgStr(p) = NoneV
    \/ IsIdentifierPart(p) /\ resolve_str(parsed_code, p, StrHierarchy, -1, {}) = NoneV

\* C10: in resolve_string a part that cannot be resolved to any value gives
\* its original token to the result: an undefined identifier part, and also a
\* template part string("... {0} ...", arg) whose arg resolves neither as a
\* number nor as a string.
C10_UnresolvedPartKeepsToken ==
    (pc = "returned" /\ ret.fn = "resolve_str" /\ ret.val.k = "str") =>
        \A j \in 1..Len(StrParts) :
            Unresolvable(StrParts[j]) =>
                PartAlone(parsed_code, StrHierarchy, StrParts[j]) = StrV(StrParts[j])

\* a part that is a quoted literal, and the text between its quotes
IsQuotedPart(p) == p # "" /\ Ch(p, 1) = "\"" /\ Ch(p, Len(p)) = "\""

QuotedBody(p) == Slice(p, 2, Len(p) - 1)

\* C11: resolve_string post-processes the concatenated string once, not each
\* part: for a raw value made of quoted literals the result is the
\* post-processing of the joined literals, so a line-break marker that ends
\* a non-final part ("a\n" + "b") stays and becomes "; ".
C11_PostProcessedOnce ==
    (pc = "returned" /\ ret.fn = "resolve_str" /\ ret.val.k = "str"
        /\ \A j \in 1..Len(StrParts) : IsQuotedPart(StrParts[j])) =>
            ret.val.s = PostProcess(Join([j \in 1..Len(StrParts) |-> QuotedBody(StrParts[j])]))

\* C12: resolve_string gives Absent if and only if no record of the hierarchy
\* has the effective key; when some record has it, with any raw value (the
\* empty text of a line `x = ` too), the result is a string.
C12_AbsentOnlyWhenKeyMissing ==
    (pc = "returned" /\ ret.fn = "resolve_str") =>
        /\ ret.val = NoneV <=> DefIndex(parsed_code, ret.objs, RetKey) = 0
        /\ DefIndex(parsed_code, ret.objs, RetKey) > 0 => ret.val.k = "str"

\* the values map of one record
RecordValues(tbl) == [key \in DOMAIN tbl \ {"__calls"} |-> tbl[key]]

\* a values map written as one `key = value` line per key
RECURSIVE SerializeKeys(_, _)
SerializeKeys(values, keys) ==
    IF keys = {} THEN ""
    ELSE LET key == CHOOSE k \in keys : TRUE
         IN  JoinLines(Assign(key, values[key].s), SerializeKeys(values, keys \ {key}))

Serialize(values) == SerializeKeys(values, DOMAIN values)

\* C13: for every script text, serializing the values map of the tokenized
\* text as one `key = value` line per key and tokenizing that text again
\* gives the same values map.
C13_RoundTrip ==
    pc = "parsed" =>
        \A o \in DOMAIN parsed_code :
            RecordValues(parse_gml(Serialize(RecordValues(parsed_code[o]))))
                = RecordValues(parsed_code[o])

\* every line of oA's script begins with a space or a tab
AllLinesIndented ==
    /\ Truthy(gml["oA"])
    /\ \A i \in 1..Len(SplitLines(gml["oA"].s)) :
          LET line == SplitLines(gml["oA"].s)[i]
          IN  StartsWith(line, " ") \/ StartsWith(line, "\t")

\* C14: a script in which every line begins with leading whitespace (spaces
\* or tabs) is tokenized to a record with an empty values map and an empty
\* calls list.
C14_IndentedLinesSkipped ==
    (pc = "parsed" /\ AllLinesIndented) =>
        /\ RecordValues(parsed_code["oA"]) = <<>>
        /\ Get(parsed_code["oA"], "__calls") = ListV(<<>>)

\* C15: args_for_calls returns a sequence for every object of the parent
\* map; for an object whose script is absent or empty the record is empty
\* and the empty sequence is returned, no exception is raised.
C15_CallsOfEmptyScript ==
    ret.fn = "args_for_calls" =>
        /\ pc # "crashed"
        /\ ret.val.k = "list"
        /\ ~Truthy(gml[ret.objs[1]]) => ret.val = ListV(<<>>)

\* the calls of the record that bear the name, in the order of the record
CallsNamed(tbl, call_name) == SelectSeq(tbl["__calls"].l, LAMBDA c : c.fn = call_name)

\* C16: args_for_calls returns exactly the calls of the object's own record
\* whose name is the one asked for, in source order, none added, dropped or
\* reordered; calls of ancestors are not included.
C16_OwnCallsFiltered ==
    (pc = "returned" /\ ret.fn = "args_for_calls") =>
        LET own == CallsNamed(parsed_code[ret.objs[1]], ret.name)
        IN  ret.val = ListV([j \in 1..Len(own) |-> own[j].args])

\* a child with two calls of the name, under a parent with calls of its own
C16_Witness ==
    /\ pc = "returned" /\ ret.fn = "args_for_calls"
    /\ ret.objs = <<"oCrewC">> /\ ret.name = "crew_init_keywords"
    /\ objParentMap["oCrewC"] = "oCrewP"
    /\ Has(parsed_code["oCrewP"], "__calls") /\ parsed_code["oCrewP"]["__calls"].l # <<>>
    /\ ret.val = ListV(<< <<"oKWA">>, <<"oKWB">> >>)

\* the line c is id[n] = v with "[" at b and "]" at e
IdxShape(c, b, e) ==
    /\ IsWord(Slice(c, 1, b - 1))
    /\ Ch(c, b) = "["
    /\ IsDigits(Slice(c, b + 1, e - 1))
    /\ Ch(c, e) = "]"
    /\ Slice(c, e + 1, e + 3) = " = "

IsIndexedLine(raw) ==
    \E b \in 1..Len(raw), e \in 1..Len(raw) : IdxShape(CleanLine(raw), b, e)

IdxOpen(raw) == CHOOSE b \in 1..Len(raw) : \E e \in 1..Len(raw) : IdxShape(CleanLine(raw), b, e)

IdxClose(raw) == CHOOSE e \in 1..Len(raw) : \E b \in 1..Len(raw) : IdxShape(CleanLine(raw), b, e)

IndexedId(raw) == Slice(CleanLine(raw), 1, IdxOpen(raw) - 1)

IndexedKey(raw) ==
    IndexedId(raw) \o ":"
        \o IntToStr(StrToInt(Slice(CleanLine(raw), IdxOpen(raw) + 1, IdxClose(raw) - 1)))

IndexedValue(raw) == From(CleanLine(raw), IdxClose(raw) + 4)

\* the live lines that are indexed assignments, and those that assign the bare id
IndexedLines == {i \in 1..Len(ScriptLines) : IsIndexedLine(ScriptLines[i])}

BareLines(id) == {i \in 1..Len(ScriptLines) : StartsWith(CleanLine(ScriptLines[i]), id \o " = ")}

Last(S) == CHOOSE i \in S : \A j \in S : j <= i

\* C19: an indexed assignment line id[n] = v adds the key id:n with the raw
\* text v and leaves the bare key id alone; of several lines that write the
\* same key the last one gives the value.
C19_IndexedAssignment ==
    Tokenized =>
        \A i \in IndexedLines :
            LET id == IndexedId(ScriptLines[i])
                key == IndexedKey(ScriptLines[i])
                same == {j \in IndexedLines : IndexedKey(ScriptLines[j]) = key}
            IN  /\ Get(parsed_code["oA"], key) = StrV(IndexedValue(ScriptLines[Last(same)]))
                /\ Has(parsed_code["oA"], id) <=> BareLines(id) # {}
                /\ BareLines(id) # {} =>
                      parsed_code["oA"][id]
                          = StrV(From(CleanLine(ScriptLines[Last(BareLines(id))]), Len(id) + 4))

\* the same indexed key written twice, with no line for the bare key
C19_Witness ==
    /\ Tokenized
    /\ ScriptLines = <<"hp[2] = 5", "var hp[2] = 6;">>
    /\ Get(parsed_code["oA"], "hp:2") = StrV("6")
    /\ ~Has(parsed_code["oA"], "hp")

\* the key is identifier:integer
IsIndexedKey(key) ==
    \E i \in 1..Len(key) :
        Ch(key, i) = ":" /\ IsWord(Slice(key, 1, i - 1)) /\ IsDigits(From(key, i + 1))

\* C20: every key of a values map is a bare identifier or has the form
\* identifier:integer; a root-scope line with " = " whose left side is
\* neither an identifier nor identifier[integer] adds no key.
C20_KeysAreIdentifiers ==
    Tokenized =>
        \A key \in DOMAIN RecordValues(parsed_code["oA"]) : IsWord(key) \/ IsIndexedKey(key)

\* every object of the parent map has its record, tokenized from its script
AllRecordsBuilt ==
    /\ DOMAIN parsed_code = DOMAIN objParentMap
    /\ \A o \in DOMAIN objParentMap : Truthy(gml[o]) => Has(parsed_code[o], "__calls")

\* a step that resolves or queries: the patching pass, which calls the
\* resolvers, or a call of the processing layer
ResolutionStep ==
    \/ pc = "parsed" /\ pc' # "parsed"
    \/ ret' # ret /\ ret' # NoCall

\* C18: in every run the record of every object of the parent map has been
\* built by the tokenizer before the first call of a resolver or of a call
\* query; no resolution step is interleaved with tokenization.
C18_TokenizedBeforeResolution ==
    [][ResolutionStep => (pc # "loaded" /\ AllRecordsBuilt)]_vars

\* a resolver has returned, after the scripts of four objects were tokenized
C18_Witness ==
    /\ pc = "returned" /\ ret.fn = "resolve_str"
    /\ AllRecordsBuilt
    /\ Cardinality({o \in DOMAIN gml : Truthy(gml[o])}) >= 4

----------------------------------------------------------------------------
(* The hierarchy worlds: three objects without scripts, each with a parent *)
(* that is another object, a sentinel, nothing, or an object the table     *)
(* does not hold.                                                          *)

HierObjects == {"oA", "oB", "oC"}

HierParents == HierObjects \cup {"__NONE__", "oSaveObject", "", "oGone"}

HierParentMaps == [HierObjects -> HierParents]

CallHierarchyForObject(obj_name) ==
    /\ pc = "proc"
    /\ Return("hierarchy_for_object", obj_name, <<obj_name>>, -1,
              hierarchy_for_object(objParentMap, obj_name))
    /\ UNCHANGED <<objParentMap, gml, parsed_code>>

InitHier ==
    /\ objParentMap \in HierParentMaps
    /\ gml = [o \in HierObjects |-> NoneV]
    /\ parsed_code = <<>>
    /\ pc = "loaded"
    /\ ret = NoCall

NextHier ==
    \/ ParseObjectCode
    \/ PatchObjectCode
    \/ \E o \in HierObjects : CallHierarchyForObject(o)
    \/ TakeResult

SpecHier == InitHier /\ [][NextHier]_vars

\* the k-th ancestor of o by the table, "" once the chain has left the table
RECURSIVE Up(_, _, _)
Up(map, o, k) ==
    IF o \notin DOMAIN map THEN ""
    ELSE IF k = 0 THEN o
    ELSE Up(map, map[o], k - 1)

Acyclic(map) ==
    \A o \in DOMAIN map, k \in 1..Cardinality(DOMAIN map) : Up(map, o, k) # o

Terminators == {"__NONE__", "oSaveObject"}

\* l is the chain of o: it starts at o, follows the table, holds no
\* terminator and ends where the parent is missing or a terminator
IsChainOf(map, o, l) ==
    /\ Len(l) >= 1
    /\ l[1] = o
    /\ \A i \in 2..Len(l) : l[i - 1] \in DOMAIN map /\ l[i] = map[l[i - 1]]
    /\ \A i \in 1..Len(l) : l[i] \notin Terminators
    /\ \/ l[Len(l)] \notin DOMAIN map
       \/ map[l[Len(l)]] \in Terminators \cup {""}

\* C17: for every object of an acyclic parent map, hierarchy_for_object ends
\* with a sequence of length at least 1 that starts at the object, in which
\* each later element is the parent of the one before, which holds no
\* terminator and which ends at the last object whose parent is missing or a
\* terminator.  In these worlds nothing but the hierarchy walk can raise.
C17_HierarchyChain ==
    Acyclic(objParentMap) =>
        /\ pc # "crashed"
        /\ (pc = "returned" /\ ret.fn = "hierarchy_for_object") =>
              /\ ret.val.k = "list"
              /\ IsChainOf(objParentMap, ret.name, ret.val.l)

\* a part string(<inner>) whose inner is not the template form, and the
\* number its inner text resolves to
IsStringOfPart(p) == StrFnMatch(p) /\ ~StrFormatMatch(StrFnInner(p))

InnerNum(p) == resolve_num(parsed_code, StrFnInner(p), StrHierarchy, -1, {})

\* C21: in resolve_str a part string(<inner>) whose inner is not the
\* template form gives the text of the number inner resolves to whenever the
\* numeric resolution succeeds, for every number including 0.
C21_StringOfNumber ==
    (pc = "returned" /\ ret.fn = "resolve_str" /\ ret.val.k = "str") =>
        \A j \in 1..Len(StrParts) :
            (IsStringOfPart(StrParts[j]) /\ InnerNum(StrParts[j]).k \in {"int", "float"}) =>
                PartAlone(parsed_code, StrHierarchy, StrParts[j])
                    = StrV(PyStr(InnerNum(StrParts[j])))

\* the lines of oA's script, and the place of its first return line (0: none)
RawLines == IF Truthy(gml["oA"]) THEN SplitLines(gml["oA"].s) ELSE <<>>

ReturnAt ==
    LET at == {i \in 1..Len(RawLines) : RawLines[i] = "return"}
    IN  IF at = {} THEN 0 ELSE CHOOSE i \in at : \A j \in at : i <= j

BeforeReturn == IF ReturnAt = 0 THEN RawLines ELSE SubSeq(RawLines, 1, ReturnAt - 1)

\* the root-scope lines that are assignments, and the key each one writes
IsAssignLine(raw) ==
    /\ ~StartsWith(CleanLine(raw), " ")
    /\ ~FnMatch(CleanLine(raw))
    /\ Find(CleanLine(raw), " = ") > 0

WrittenKey(raw) == AssignKey(Slice(CleanLine(raw), 1, Find(CleanLine(raw), " = ") - 1))

IsCallLine(raw) == ~StartsWith(CleanLine(raw), " ") /\ FnMatch(CleanLine(raw))

\* C22: tokenization stops at the first line that is return: no assignment
\* and no call of a later line is in the record, and every root-scope
\* assignment and call of the lines before it is.
C22_StopsAtReturn ==
    (pc = "parsed" /\ Truthy(gml["oA"])) =>
        /\ DOMAIN RecordValues(parsed_code["oA"])
              = {WrittenKey(BeforeReturn[i]) :
                    i \in {j \in 1..Len(BeforeReturn) : IsAssignLine(BeforeReturn[j])}}
        /\ Len(parsed_code["oA"]["__calls"].l)
              = Cardinality({i \in 1..Len(BeforeReturn) : IsCallLine(BeforeReturn[i])})
        /\ parsed_code["oA"] = ParseLines(BeforeReturn, EmptyDict, <<>>)

\* an assignment written after the return line has left nothing in the record
C22_Witness ==
    /\ pc = "parsed"
    /\ RawLines = <<"return", "hp = 1">>
    /\ parsed_code["oA"] = DictSet(EmptyDict, "__calls", ListV(<<>>))
====
